---- MODULE Spec2Model ----
(***************************************************************************)
(* A model of uxplay.cpp: the command-line validator (get_display_settings, *)
(* get_value, get_ports, the argument loop of main) and the lifecycle       *)
(* driver (start_server, main_loop with its callbacks, stop_server, the     *)
(* relaunch loop of main).                                                  *)
(*                                                                          *)
(* C strings are sequences of one-character strings.  argv[k] of the model  *)
(* is argv[k] of the program for k >= 1 (argv[0] is left out), so           *)
(* argc = Len(argv) + 1.                                                    *)
(***************************************************************************)
EXTENDS Integers, Sequences, FiniteSets, TLC

VARIABLES
    \* ---- main: the argument loop and the configuration it builds
    argv, i, display, tcp, udp, videoflip, server_name, use_audio,
    use_random_hw_addr, debug_log, videosink, audiosink, server_timeout,
    \* ---- main: control position and process exit status
    pc, exit_status,
    \* ---- file-scope statics of uxplay.cpp
    raop, dnssd, video_renderer, audio_renderer, render_logger,
    relaunch_server, open_connections, connections_stopped, counter, use_video,
    \* ---- the GMainLoop of main_loop and its sources
    watches, quit, dispatched,
    \* ---- the subsystem objects behind the handles
    run, created, destroyed, faults, stopOps, started, engineConns,
    \* ---- the engine's callback thread: the callback it is inside, if any
    cb,
    \* ---- history of the current run attempt (observers, not program state)
    hist,
    \* ---- argument and result of a parser function applied on its own
    fnIn, fnOut

cfgVars  == <<argv, i, display, tcp, udp, videoflip, server_name, use_audio,
              use_random_hw_addr, debug_log, videosink, audiosink, server_timeout>>
procVars == <<pc, exit_status>>
hdlVars  == <<raop, dnssd, video_renderer, audio_renderer, render_logger>>
connVars == <<open_connections, connections_stopped, counter>>
loopVars == <<watches, quit, dispatched>>
objVars  == <<run, created, destroyed, faults, stopOps, started, engineConns>>
fnVars   == <<fnIn, fnOut>>
vars     == <<cfgVars, procVars, hdlVars, relaunch_server, connVars, use_video,
              loopVars, objVars, cb, hist, fnVars>>

(***************************************************************************)
(* Program constants                                                       *)
(***************************************************************************)
LOWEST_ALLOWED_PORT == 1024
HIGHEST_PORT == 65535
NPORTS == 3
FPS_CEILING == 255

(***************************************************************************)
(* Characters and strings                                                  *)
(***************************************************************************)
Digits == <<"0", "1", "2", "3", "4", "5", "6", "7", "8", "9">>

IsDigit(c) == \E d \in 1..10 : Digits[d] = c

DigitVal(c) == (CHOOSE d \in 1..10 : Digits[d] = c) - 1

\* isspace() of the C locale, over the characters the inputs use
IsSpace(c) == c = " "

\* std::string::find_first_of(c): the first index of c in s, 0 for npos
FindFirstOf(s, c) ==
    IF \E k \in 1..Len(s) : s[k] = c
    THEN CHOOSE k \in 1..Len(s) : s[k] = c /\ \A j \in 1..(k - 1) : s[j] # c
    ELSE 0

\* std::string::substr(pos): the characters from 1-based index from on
SubstrFrom(s, from) == SubSeq(s, from, Len(s))

\* std::string::erase(pos) / substr(0,pos): the characters before index upto
Prefix(s, upto) == SubSeq(s, 1, upto - 1)

(***************************************************************************)
(* strtoul(str, &end, 10).  An unsigned long has 64 bits; the value is     *)
(* kept as 16-bit limbs, value = hi * 65536 + lo, and neg records a        *)
(* leading '-' (the result is then 2^64 - value for value > 0).  end is    *)
(* the index of the first character not consumed (Len(str) + 1 when the    *)
(* whole string was consumed, 1 when no digit was found).                  *)
(***************************************************************************)
RECURSIVE SkipSpace(_, _)
SkipSpace(s, k) ==
    IF k <= Len(s) /\ IsSpace(s[k]) THEN SkipSpace(s, k + 1) ELSE k

RECURSIVE AccumDigits(_, _, _, _)
AccumDigits(s, k, hi, lo) ==
    IF k <= Len(s) /\ IsDigit(s[k])
    THEN LET t == lo * 10 + DigitVal(s[k])
         IN  AccumDigits(s, k + 1, hi * 10 + (t \div 65536), t % 65536)
    ELSE [hi |-> hi, lo |-> lo, end |-> k]

strtoul(s) ==
    LET k0   == SkipSpace(s, 1)
        sign == k0 <= Len(s) /\ s[k0] \in {"+", "-"}
        k1   == IF sign THEN k0 + 1 ELSE k0
        acc  == AccumDigits(s, k1, 0, 0)
    IN  IF acc.end = k1
        THEN [neg |-> FALSE, hi |-> 0, lo |-> 0, end |-> 1]
        ELSE [neg |-> sign /\ s[k0] = "-", hi |-> acc.hi, lo |-> acc.lo,
              end |-> acc.end]

\* *end != '\0' after strtoul on s
EndNotNul(s, l) == l.end <= Len(s)

\* l == 0
ULIsZero(l) == l.hi = 0 /\ l.lo = 0

\* l > n for an int or unsigned n below 2^31
ULGreater(l, n) ==
    IF l.neg /\ ~ULIsZero(l) THEN TRUE
    ELSE \/ l.hi > n \div 65536
         \/ l.hi = n \div 65536 /\ l.lo > n % 65536

\* l < n for an int n below 2^31
ULLess(l, n) ==
    IF l.neg /\ ~ULIsZero(l) THEN FALSE
    ELSE \/ l.hi < n \div 65536
         \/ l.hi = n \div 65536 /\ l.lo < n % 65536

\* (unsigned short) l
ToU16(l) == IF l.neg THEN (65536 - l.lo) % 65536 ELSE l.lo

\* (unsigned int) l
ToU32(l) ==
    LET h == l.hi % 65536
    IN  IF ~l.neg THEN h * 65536 + l.lo
        ELSE IF l.lo = 0 THEN ((65536 - h) % 65536) * 65536
        ELSE (65535 - h) * 65536 + (65536 - l.lo)

(***************************************************************************)
(* get_display_settings: the result and the values left in *w, *h, *r      *)
(***************************************************************************)
BadSegment(s, maxlen) == Len(s) = 0 \/ Len(s) > maxlen \/ s[1] = "-"

get_display_settings(value, w, h, r) ==
    LET pos   == FindFirstOf(value, "x")
        str1  == SubstrFrom(value, pos + 1)
        wstr  == Prefix(value, pos)
        lw    == strtoul(wstr)
        w1    == ToU16(lw)
        pos2  == FindFirstOf(str1, "@")
        str2  == SubstrFrom(str1, pos2 + 1)
        lr    == strtoul(str2)
        r1    == ToU16(lr)
        hstr  == IF pos2 # 0 THEN Prefix(str1, pos2) ELSE str1
        lh    == strtoul(hstr)
        h1    == ToU16(lh)
        Res(ok, ww, hh, rr) == [ok |-> ok, w |-> ww, h |-> hh, r |-> rr]
    IN  IF pos = 0 THEN Res(FALSE, w, h, r)
        ELSE IF BadSegment(wstr, 4) THEN Res(FALSE, w, h, r)
        ELSE IF EndNotNul(wstr, lw) \/ w1 = 0 THEN Res(FALSE, w1, h, r)
        ELSE IF pos2 # 0 /\ BadSegment(str2, 3) THEN Res(FALSE, w1, h, r)
        ELSE IF pos2 # 0 /\ (EndNotNul(str2, lr) \/ r1 = 0 \/ r1 > 255)
             THEN Res(FALSE, w1, h, r1)
        ELSE LET r2 == IF pos2 # 0 THEN r1 ELSE r
             IN  IF BadSegment(hstr, 4) THEN Res(FALSE, w1, h, r2)
                 ELSE IF EndNotNul(hstr, lh) \/ h1 = 0 THEN Res(FALSE, w1, h1, r2)
                 ELSE Res(TRUE, w1, h1, r2)

(***************************************************************************)
(* get_value: the result and the value left in *n                          *)
(***************************************************************************)
get_value(str, n) ==
    LET l == strtoul(str)
    IN  IF BadSegment(str, 10) THEN [ok |-> FALSE, n |-> n]
        ELSE IF EndNotNul(str, l) \/ ULIsZero(l) \/ (n > 0 /\ ULGreater(l, n))
             THEN [ok |-> FALSE, n |-> n]
        ELSE [ok |-> TRUE, n |-> ToU32(l)]

(***************************************************************************)
(* get_ports: the result and the values left in port[0..nports-1]          *)
(* (port[k+1] of the model is port[k] of the program)                      *)
(***************************************************************************)
\* the inner loop of get_ports that compares port[i] with port[0..i-1]: it
\* breaks out of itself only and changes nothing
PortSeenBefore(port, k) == \E j \in 1..(k - 1) : port[j] = port[k]

RECURSIVE FillPorts(_, _, _)
FillPorts(port, j, nports) ==
    IF j > nports THEN port
    ELSE FillPorts([port EXCEPT ![j] = (port[j - 1] + 1) % 65536], j + 1, nports)

\* the test before the fill, off by one slot
FillExceeds_OffByOne(nports, p, k) == nports + p > k + 2 + HIGHEST_PORT

\* the test before the fill: the last slot would pass HIGHEST_PORT
FillExceeds(nports, p, k) == nports + p > k + 1 + HIGHEST_PORT

RECURSIVE get_ports_loop(_, _, _, _)
get_ports_loop(k, nports, val, port) ==
    LET pos == FindFirstOf(val, ",")
        str == IF pos = 0 THEN val ELSE Prefix(val, pos)
        l   == strtoul(str)
        p1  == [port EXCEPT ![k + 1] = ToU16(l)]
    IN  IF k = nports THEN [ok |-> FALSE, port |-> port]
        ELSE IF BadSegment(str, 5) THEN [ok |-> FALSE, port |-> port]
        ELSE IF \/ EndNotNul(str, l)
                \/ ULLess(l, LOWEST_ALLOWED_PORT)
                \/ ULGreater(l, HIGHEST_PORT)
             THEN [ok |-> FALSE, port |-> port]
        ELSE IF pos = 0
             THEN IF FillExceeds(nports, p1[k + 1], k)
                  THEN [ok |-> FALSE, port |-> p1]
                  ELSE [ok |-> TRUE, port |-> FillPorts(p1, k + 2, nports)]
        ELSE get_ports_loop(k + 1, nports, SubstrFrom(val, pos + 1), p1)

get_ports(nports, value, port) == get_ports_loop(0, nports, value, port)

(***************************************************************************)
(* get_videoflip, get_videorotate: the result and the value left in        *)
(* *videoflip.  str[0] of an empty string is the terminating NUL.          *)
(***************************************************************************)
FirstChar(str) == IF Len(str) = 0 THEN "NUL" ELSE str[1]

get_videoflip(str, flip) ==
    IF Len(str) > 1 THEN [ok |-> FALSE, flip |-> flip]
    ELSE IF FirstChar(str) = "I" THEN [ok |-> TRUE, flip |-> "INVERT"]
    ELSE IF FirstChar(str) = "H" THEN [ok |-> TRUE, flip |-> "HFLIP"]
    ELSE IF FirstChar(str) = "V" THEN [ok |-> TRUE, flip |-> "VFLIP"]
    ELSE [ok |-> FALSE, flip |-> flip]

get_videorotate(str, flip) ==
    IF Len(str) > 1 THEN [ok |-> FALSE, flip |-> flip]
    ELSE IF FirstChar(str) = "L" THEN [ok |-> TRUE, flip |-> "LEFT"]
    ELSE IF FirstChar(str) = "R" THEN [ok |-> TRUE, flip |-> "RIGHT"]
    ELSE [ok |-> FALSE, flip |-> flip]

(***************************************************************************)
(* option_has_value(i, argc, option, argv[i+1]); k is the index i of the   *)
(* option in argv                                                          *)
(***************************************************************************)
option_has_value(args, k) ==
    IF k >= Len(args) THEN FALSE ELSE FirstChar(args[k + 1]) # "-"

(***************************************************************************)
(* Bounds of the model                                                     *)
(***************************************************************************)
\* tokens on the command line
MaxArgs == 3
\* comma-separated fields of a port list given to get_ports on its own
MaxFields == 4
\* configured idle timeouts tried by the lifecycle
MaxTimeout == 2
\* one-second ticks dispatched in one run of the event loop
MaxTicks == 3
\* connections the protocol engine holds open at once
MaxConn == 2
\* calls of start_server in one process
MaxRuns == 2

(***************************************************************************)
(* Inputs                                                                  *)
(***************************************************************************)
\* the decimal numeral of n, as printf("%d") writes it
RECURSIVE Dec(_)
Dec(n) == IF n < 10 THEN <<Digits[n + 1]>> ELSE Dec(n \div 10) \o <<Digits[(n % 10) + 1]>>

RECURSIVE Join(_, _)
Join(parts, sep) ==
    IF Len(parts) = 0 THEN <<>>
    ELSE IF Len(parts) = 1 THEN parts[1]
    ELSE parts[1] \o <<sep>> \o Join(Tail(parts), sep)

SeqsUpTo(S, n) == UNION {[1..k -> S] : k \in 0..n}

F_n   == <<"-", "n">>
F_s   == <<"-", "s">>
F_fps == <<"-", "f", "p", "s">>
F_o   == <<"-", "o">>
F_f   == <<"-", "f">>
F_r   == <<"-", "r">>
F_p   == <<"-", "p">>
F_m   == <<"-", "m">>
F_a   == <<"-", "a">>
F_d   == <<"-", "d">>
F_h   == <<"-", "h">>
F_v   == <<"-", "v">>
F_vs  == <<"-", "v", "s">>
F_as  == <<"-", "a", "s">>
F_t   == <<"-", "t">>
S_tcp == <<"t", "c", "p">>
S_udp == <<"u", "d", "p">>
S_0   == <<"0">>
S_autovideosink == <<"a", "u", "t", "o", "v", "i", "d", "e", "o", "s", "i", "n", "k">>
S_autoaudiosink == <<"a", "u", "t", "o", "a", "u", "d", "i", "o", "s", "i", "n", "k">>
S_UxPlay == <<"U", "x", "P", "l", "a", "y">>

FlagTokens == {F_n, F_s, F_fps, F_o, F_f, F_r, F_p, F_m, F_a, F_d, F_h, F_v,
               F_vs, F_as, F_t, <<"-", "x">>}

ValueTokens == {Dec(7000), Dec(65534), S_tcp, S_udp, S_0, Dec(2), <<"H">>, <<"R">>,
                <<"1", "x", "1">>, <<>>}

ArgvInputs ==
    SeqsUpTo(FlagTokens \cup ValueTokens, MaxArgs)
    \cup {<<F_p, Dec(n)>> : n \in {1024, 65533, 65535}}
    \cup {<<F_s, Dec(1280) \o <<"x">> \o Dec(720) \o <<"@">> \o Dec(30),
            F_fps, Dec(24), F_p, Dec(7000), F_t, Dec(5)>>}

(***************************************************************************)
(* Initial values of main's locals and of the file-scope statics           *)
(***************************************************************************)
HistInit ==
    [badValue |-> FALSE, startFailed |-> FALSE, sig |-> FALSE,
     rendQuit |-> FALSE, opened |-> FALSE, ticks |-> 0, idleTicks |-> 0,
     idleQuit |-> FALSE, idleQuitTicks |-> 0, busyCount |-> FALSE,
     videoForwarded |-> FALSE]

MainLocalsInit ==
    /\ i = 1
    /\ display = <<0, 0, 0, 0, 0>>
    /\ tcp = <<0, 0, 0>>
    /\ udp = <<0, 0, 0>>
    /\ videoflip = <<"NONE", "NONE">>
    /\ server_name = S_UxPlay
    /\ use_audio = TRUE
    /\ use_random_hw_addr = FALSE
    /\ debug_log = FALSE
    /\ videosink = S_autovideosink
    /\ audiosink = S_autoaudiosink

StaticsInit ==
    /\ raop = 0
    /\ dnssd = 0
    /\ video_renderer = 0
    /\ audio_renderer = 0
    /\ render_logger = 0
    /\ relaunch_server = FALSE
    /\ open_connections = 0
    /\ connections_stopped = FALSE
    /\ server_timeout = 0
    /\ counter = 0
    /\ use_video = TRUE

EnvInit ==
    /\ exit_status = -1
    /\ watches = {}
    /\ quit = FALSE
    /\ dispatched = {}
    /\ run = 0
    /\ created = {}
    /\ destroyed = {}
    /\ faults = {}
    /\ stopOps = <<>>
    /\ started = {}
    /\ engineConns = 0
    /\ cb = "idle"
    /\ hist = HistInit

FnIdle ==
    /\ fnIn = <<>>
    /\ fnOut = <<>>

(***************************************************************************)
(* main: the argument loop.  One action is one iteration of the loop, for  *)
(* one branch of its if-else chain.                                        *)
(***************************************************************************)
AtArg(flags) == pc = "parse" /\ i <= Len(argv) /\ argv[i] \in flags

\* what an iteration leaves alone besides main's locals
ParseFrame ==
    UNCHANGED <<argv, hdlVars, relaunch_server, connVars, use_video, loopVars,
                objVars, fnVars, cb>>

\* exit(status)
Exit(status) == pc' = "exited" /\ exit_status' = status

Continue(next) == i' = next /\ UNCHANGED procVars

NoteValue(ok) == hist' = [hist EXCEPT !.badValue = @ \/ ~ok]

OptName ==
    /\ AtArg({F_n})
    /\ IF ~option_has_value(argv, i)
       THEN Exit(1) /\ UNCHANGED <<i, server_name>>
       ELSE server_name' = argv[i + 1] /\ Continue(i + 2)
    /\ UNCHANGED <<display, tcp, udp, videoflip, use_audio, use_random_hw_addr,
                   debug_log, videosink, audiosink, server_timeout, hist>>
    /\ ParseFrame

OptDisplay ==
    /\ AtArg({F_s})
    /\ IF ~option_has_value(argv, i)
       THEN Exit(1) /\ UNCHANGED <<i, display, hist>>
       ELSE LET res == get_display_settings(argv[i + 1], display[1], display[2],
                                            display[3])
            IN  /\ display' = [display EXCEPT ![1] = res.w, ![2] = res.h,
                                              ![3] = res.r]
                /\ NoteValue(res.ok)
                /\ IF res.ok THEN Continue(i + 2) ELSE Exit(1) /\ i' = i + 1
    /\ UNCHANGED <<tcp, udp, videoflip, server_name, use_audio, use_random_hw_addr,
                   debug_log, videosink, audiosink, server_timeout>>
    /\ ParseFrame

OptFps ==
    /\ AtArg({F_fps})
    /\ IF ~option_has_value(argv, i)
       THEN Exit(1) /\ UNCHANGED <<i, display, hist>>
       ELSE LET res == get_value(argv[i + 1], FPS_CEILING)
            IN  /\ NoteValue(res.ok)
                /\ IF res.ok
                   THEN display' = [display EXCEPT ![4] = res.n % 65536]
                        /\ Continue(i + 2)
                   ELSE Exit(1) /\ i' = i + 1 /\ UNCHANGED display
    /\ UNCHANGED <<tcp, udp, videoflip, server_name, use_audio, use_random_hw_addr,
                   debug_log, videosink, audiosink, server_timeout>>
    /\ ParseFrame

OptOverscan ==
    /\ AtArg({F_o})
    /\ display' = [display EXCEPT ![5] = 1]
    /\ Continue(i + 1)
    /\ UNCHANGED <<tcp, udp, videoflip, server_name, use_audio, use_random_hw_addr,
                   debug_log, videosink, audiosink, server_timeout, hist>>
    /\ ParseFrame

OptFlip ==
    /\ AtArg({F_f})
    /\ IF ~option_has_value(argv, i)
       THEN Exit(1) /\ UNCHANGED <<i, videoflip, hist>>
       ELSE LET res == get_videoflip(argv[i + 1], videoflip[1])
            IN  /\ videoflip' = [videoflip EXCEPT ![1] = res.flip]
                /\ NoteValue(res.ok)
                /\ IF res.ok THEN Continue(i + 2) ELSE Exit(1) /\ i' = i + 1
    /\ UNCHANGED <<display, tcp, udp, server_name, use_audio, use_random_hw_addr,
                   debug_log, videosink, audiosink, server_timeout>>
    /\ ParseFrame

OptRotate ==
    /\ AtArg({F_r})
    /\ IF ~option_has_value(argv, i)
       THEN Exit(1) /\ UNCHANGED <<i, videoflip, hist>>
       ELSE LET res == get_videorotate(argv[i + 1], videoflip[2])
            IN  /\ videoflip' = [videoflip EXCEPT ![2] = res.flip]
                /\ NoteValue(res.ok)
                /\ IF res.ok THEN Continue(i + 2) ELSE Exit(1) /\ i' = i + 1
    /\ UNCHANGED <<display, tcp, udp, server_name, use_audio, use_random_hw_addr,
                   debug_log, videosink, audiosink, server_timeout>>
    /\ ParseFrame

\* i == argc - 1 || argv[i + 1][0] == '-'
NoPortValue(args, k) ==
    IF k = Len(args) THEN TRUE ELSE FirstChar(args[k + 1]) = "-"

\* "-p" with no value: the legacy ports
OptPortLegacy ==
    /\ AtArg({F_p})
    /\ NoPortValue(argv, i)
    /\ tcp' = <<7100, 7000, 7001>>
    /\ udp' = <<7011, 6001, 6000>>
    /\ Continue(i + 1)
    /\ UNCHANGED <<display, videoflip, server_name, use_audio, use_random_hw_addr,
                   debug_log, videosink, audiosink, server_timeout, hist>>
    /\ ParseFrame

\* "-p tcp <list>" and "-p udp <list>".  argv[++i] is read without a test:
\* past the last token it is the NULL that ends argv, and std::string(NULL)
\* is undefined (libstdc++ throws std::logic_error, which ends the process
\* by abort; other builds dereference NULL).
OptPortFamily ==
    /\ AtArg({F_p})
    /\ ~NoPortValue(argv, i)
    /\ argv[i + 1] \in {S_tcp, S_udp}
    /\ IF i + 2 > Len(argv)
       THEN /\ pc' = "crashed"
            /\ exit_status' \in {134, 139}
            /\ i' = i + 2
            /\ UNCHANGED <<tcp, udp, hist>>
       ELSE LET old == IF argv[i + 1] = S_tcp THEN tcp ELSE udp
                res == get_ports(NPORTS, argv[i + 2], old)
            IN  /\ IF argv[i + 1] = S_tcp
                   THEN tcp' = res.port /\ UNCHANGED udp
                   ELSE udp' = res.port /\ UNCHANGED tcp
                /\ NoteValue(res.ok)
                /\ IF res.ok THEN Continue(i + 3) ELSE Exit(1) /\ i' = i + 2
    /\ UNCHANGED <<display, videoflip, server_name, use_audio, use_random_hw_addr,
                   debug_log, videosink, audiosink, server_timeout>>
    /\ ParseFrame

\* "-p <list>": the list goes to tcp, and udp[1], udp[2] are copied from it
OptPortBoth ==
    /\ AtArg({F_p})
    /\ ~NoPortValue(argv, i)
    /\ argv[i + 1] \notin {S_tcp, S_udp}
    /\ LET res == get_ports(NPORTS, argv[i + 1], tcp)
       IN  /\ tcp' = res.port
           /\ NoteValue(res.ok)
           /\ IF res.ok
              THEN udp' = [udp EXCEPT ![2] = res.port[2], ![3] = res.port[3]]
                   /\ Continue(i + 2)
              ELSE Exit(1) /\ i' = i + 1 /\ UNCHANGED udp
    /\ UNCHANGED <<display, videoflip, server_name, use_audio, use_random_hw_addr,
                   debug_log, videosink, audiosink, server_timeout>>
    /\ ParseFrame

OptRandomMac ==
    /\ AtArg({F_m})
    /\ use_random_hw_addr' = TRUE
    /\ Continue(i + 1)
    /\ UNCHANGED <<display, tcp, udp, videoflip, server_name, use_audio,
                   debug_log, videosink, audiosink, server_timeout, hist>>
    /\ ParseFrame

OptNoAudio ==
    /\ AtArg({F_a})
    /\ use_audio' = FALSE
    /\ Continue(i + 1)
    /\ UNCHANGED <<display, tcp, udp, videoflip, server_name, use_random_hw_addr,
                   debug_log, videosink, audiosink, server_timeout, hist>>
    /\ ParseFrame

OptDebug ==
    /\ AtArg({F_d})
    /\ debug_log' = ~debug_log
    /\ Continue(i + 1)
    /\ UNCHANGED <<display, tcp, udp, videoflip, server_name, use_audio,
                   use_random_hw_addr, videosink, audiosink, server_timeout, hist>>
    /\ ParseFrame

OptHelp ==
    /\ AtArg({F_h, F_v})
    /\ Exit(0)
    /\ UNCHANGED <<i, display, tcp, udp, videoflip, server_name, use_audio,
                   use_random_hw_addr, debug_log, videosink, audiosink,
                   server_timeout, hist>>
    /\ ParseFrame

OptVideoSink ==
    /\ AtArg({F_vs})
    /\ IF ~option_has_value(argv, i)
       THEN Exit(1) /\ UNCHANGED <<i, videosink>>
       ELSE videosink' = argv[i + 1] /\ Continue(i + 2)
    /\ UNCHANGED <<display, tcp, udp, videoflip, server_name, use_audio,
                   use_random_hw_addr, debug_log, audiosink, server_timeout, hist>>
    /\ ParseFrame

OptAudioSink ==
    /\ AtArg({F_as})
    /\ IF ~option_has_value(argv, i)
       THEN Exit(1) /\ UNCHANGED <<i, audiosink>>
       ELSE audiosink' = argv[i + 1] /\ Continue(i + 2)
    /\ UNCHANGED <<display, tcp, udp, videoflip, server_name, use_audio,
                   use_random_hw_addr, debug_log, videosink, server_timeout, hist>>
    /\ ParseFrame

\* "-t n": the result of get_value is not tested
TimeoutAfter(res) == res.n

OptTimeout ==
    /\ AtArg({F_t})
    /\ IF ~option_has_value(argv, i)
       THEN Exit(1) /\ UNCHANGED <<i, server_timeout, hist>>
       ELSE LET res == get_value(argv[i + 1], 0)
            IN  /\ server_timeout' = TimeoutAfter(res)
                /\ NoteValue(res.ok)
                /\ Continue(i + 2)
    /\ UNCHANGED <<display, tcp, udp, videoflip, server_name, use_audio,
                   use_random_hw_addr, debug_log, videosink, audiosink>>
    /\ ParseFrame

OptUnknown ==
    /\ pc = "parse" /\ i <= Len(argv)
    /\ argv[i] \notin {F_n, F_s, F_fps, F_o, F_f, F_r, F_p, F_m, F_a, F_d, F_h,
                        F_v, F_vs, F_as, F_t}
    /\ Exit(1)
    /\ UNCHANGED <<i, display, tcp, udp, videoflip, server_name, use_audio,
                   use_random_hw_addr, debug_log, videosink, audiosink,
                   server_timeout, hist>>
    /\ ParseFrame

\* the loop ends; the hardware address and the server name are prepared and
\* control reaches the label relaunch
ParseDone ==
    /\ pc = "parse"
    /\ i > Len(argv)
    /\ pc' = "relaunch"
    /\ UNCHANGED <<exit_status, i, display, tcp, udp, videoflip, server_name,
                   use_audio, use_random_hw_addr, debug_log, videosink, audiosink,
                   server_timeout, hist>>
    /\ ParseFrame

InitArgs ==
    /\ argv \in ArgvInputs
    /\ pc = "parse"
    /\ MainLocalsInit
    /\ StaticsInit
    /\ EnvInit
    /\ FnIdle

NextArgs ==
    \/ OptName \/ OptDisplay \/ OptFps \/ OptOverscan \/ OptFlip \/ OptRotate
    \/ OptPortLegacy \/ OptPortFamily \/ OptPortBoth
    \/ OptRandomMac \/ OptNoAudio \/ OptDebug \/ OptHelp
    \/ OptVideoSink \/ OptAudioSink \/ OptTimeout \/ OptUnknown \/ ParseDone

SpecArgs == InitArgs /\ [][NextArgs]_vars

(***************************************************************************)
(* The subsystem objects.  A handle is 0 (NULL) or the number of the call  *)
(* of start_server that created the object, so <<name, id>> names one      *)
(* object; created and destroyed are the sets of objects made and          *)
(* destroyed so far.  faults collects the objects on which a destroy or    *)
(* unregister was invoked after their destruction (a dangling handle).     *)
(***************************************************************************)
Handles ==
    [raop |-> raop, dnssd |-> dnssd, audio_renderer |-> audio_renderer,
     video_renderer |-> video_renderer, render_logger |-> render_logger]

\* stop_server with the logger destroyed before the renderers
StopSequence_LoggerFirst ==
    << [op |-> "raop_destroy",             on |-> "raop"],
       [op |-> "dnssd_unregister_raop",    on |-> "dnssd"],
       [op |-> "dnssd_unregister_airplay", on |-> "dnssd"],
       [op |-> "dnssd_destroy",            on |-> "dnssd"],
       [op |-> "logger_destroy",           on |-> "render_logger"],
       [op |-> "audio_renderer_destroy",   on |-> "audio_renderer"],
       [op |-> "video_renderer_destroy",   on |-> "video_renderer"] >>

\* stop_server: its calls in order, each guarded by "the handle is not NULL"
StopSequence ==
    << [op |-> "raop_destroy",             on |-> "raop"],
       [op |-> "dnssd_unregister_raop",    on |-> "dnssd"],
       [op |-> "dnssd_unregister_airplay", on |-> "dnssd"],
       [op |-> "dnssd_destroy",            on |-> "dnssd"],
       [op |-> "audio_renderer_destroy",   on |-> "audio_renderer"],
       [op |-> "video_renderer_destroy",   on |-> "video_renderer"],
       [op |-> "logger_destroy",           on |-> "render_logger"] >>

DestroyOps == {"raop_destroy", "dnssd_destroy", "audio_renderer_destroy",
               "video_renderer_destroy", "logger_destroy"}

\* the calls one stop_server makes on handles h, with the object each
\* reaches and whether that object was already destroyed
StopCalls(h, gone) ==
    LET made == SelectSeq(StopSequence, LAMBDA e : h[e.on] # 0)
    IN  [k \in 1..Len(made) |->
            [op |-> made[k].op, obj |-> <<made[k].on, h[made[k].on]>>,
             stale |-> <<made[k].on, h[made[k].on]>> \in gone]]

Destroyed(calls) ==
    {calls[k].obj : k \in {j \in 1..Len(calls) : calls[j].op \in DestroyOps}}
StaleTouched(calls) == {calls[k].obj : k \in {j \in 1..Len(calls) : calls[j].stale}}

\* stop_server() on the handles h and with connections_stopped = stopped
\* (the statics as they are when it is called).  raop_destroy ends the engine: what it does with the connections
\* still open lies in the engine; it either reports each through
\* conn_destroy or drops it silently (closes says which).
stop_server(h, closes, stopped) ==
    LET calls == StopCalls(h, destroyed)
        live  == h.raop # 0 /\ <<"raop", h.raop>> \notin destroyed
        n     == IF live /\ closes THEN engineConns ELSE 0
    IN  /\ stopOps' = calls
        /\ destroyed' = destroyed \cup Destroyed(calls)
        /\ faults' = faults \cup StaleTouched(calls)
        /\ started' = {}
        /\ engineConns' = 0
        /\ open_connections' = open_connections - n
        /\ connections_stopped' =
              IF n > 0 /\ open_connections - n = 0 THEN TRUE ELSE stopped

\* a call on a destroyed object is undefined: the process goes on or dies
UseAfterFree(h) == StaleTouched(StopCalls(h, destroyed)) # {}

CrashChoices(h) == IF UseAfterFree(h) THEN BOOLEAN ELSE {FALSE}

CloseChoices == IF engineConns > 0 THEN BOOLEAN ELSE {FALSE}

(***************************************************************************)
(* start_server, called at the label relaunch of main, and what main does  *)
(* with its result.  fail names the initialisation that fails, if any.     *)
(***************************************************************************)
InitSteps == <<"raop", "logger", "video", "audio", "dnssd">>

FailPoints == {"none", "raop", "logger", "video", "audio", "dnssd"}

\* the position of a step in start_server; a failure at step f lets the
\* steps before it succeed
StepNo(f) == CHOOSE k \in 1..6 : (InitSteps \o <<"none">>)[k] = f
Reaches(fail, step) == StepNo(step) < StepNo(fail)

\* main going on to main_loop whatever start_server returned
MainAfterStart_Ignored(ret) == [pc |-> "main_loop", status |-> -1]

\* main: if (start_server(...)) return 1; else main_loop()
MainAfterStart(ret) ==
    IF ret # 0 THEN [pc |-> "exited", status |-> 1]
    ELSE [pc |-> "main_loop", status |-> -1]

\* the value start_server returns
StartResult(fail) ==
    IF fail = "none" THEN 0 ELSE IF fail = "dnssd" THEN -2 ELSE -1

StartServer(fail) ==
    /\ pc = "relaunch"
    /\ run < MaxRuns
    /\ LET id  == run + 1
           novideo == videosink = S_0
           ua  == use_audio /\ audiosink # S_0
           \* the statics after the assignments start_server made
           h   == [raop |-> IF fail = "raop" THEN 0 ELSE id,
                   render_logger |->
                       IF Reaches(fail, "logger") THEN id
                       ELSE IF fail = "logger" THEN 0 ELSE render_logger,
                   video_renderer |->
                       IF Reaches(fail, "video") THEN id
                       ELSE IF fail = "video" THEN 0 ELSE video_renderer,
                   audio_renderer |->
                       IF ~ua \/ StepNo(fail) < StepNo("audio") THEN audio_renderer
                       ELSE IF fail = "audio" THEN 0 ELSE id,
                   \* dnssd_init is taken to return NULL when it sets error
                   dnssd |->
                       IF fail = "none" THEN id
                       ELSE IF fail = "dnssd" THEN 0 ELSE dnssd]
           made == {<<n, id>> : n \in {n \in DOMAIN h : h[n] = id}}
           after == MainAfterStart(StartResult(fail))
       IN  /\ fail = "audio" => ua
           /\ run' = id
           /\ created' = created \cup made
           /\ raop' = h.raop
           /\ render_logger' = h.render_logger
           /\ video_renderer' = h.video_renderer
           /\ audio_renderer' = h.audio_renderer
           /\ dnssd' = h.dnssd
           /\ IF fail # "raop" /\ novideo
              THEN use_video' = FALSE /\ display' = [display EXCEPT ![4] = 1]
              ELSE UNCHANGED <<use_video, display>>
           /\ IF fail = "none"
              THEN /\ started' = {"raop"}
                        \cup (IF ~novideo /\ use_video THEN {"video"} ELSE {})
                        \cup (IF h.audio_renderer # 0 THEN {"audio"} ELSE {})
                   /\ connections_stopped' = FALSE
                   /\ pc' = after.pc
                   /\ exit_status' = after.status
                   /\ hist' = [hist EXCEPT !.rendQuit = FALSE, !.opened = FALSE,
                                           !.ticks = 0, !.idleTicks = 0,
                                           !.idleQuit = FALSE, !.idleQuitTicks = 0,
                                           !.videoForwarded = FALSE]
                   /\ UNCHANGED <<destroyed, faults, stopOps, engineConns,
                                  open_connections>>
              ELSE IF fail = "raop"
              THEN /\ connections_stopped' = FALSE
                   /\ pc' = after.pc
                   /\ exit_status' = after.status
                   /\ hist' = [hist EXCEPT !.startFailed = TRUE]
                   /\ UNCHANGED <<destroyed, faults, stopOps, started, engineConns,
                                  open_connections>>
              ELSE \E crash \in CrashChoices(h) :
                   /\ stop_server(h, FALSE, FALSE)
                   /\ IF crash
                      THEN /\ pc' = "crashed"
                           /\ exit_status' \in {134, 139}
                           /\ UNCHANGED hist
                      ELSE /\ pc' = after.pc
                           /\ exit_status' = after.status
                           /\ hist' = [hist EXCEPT !.startFailed = TRUE]
    /\ UNCHANGED <<argv, i, tcp, udp, videoflip, server_name, use_audio,
                   use_random_hw_addr, debug_log, videosink, audiosink,
                   server_timeout, relaunch_server, counter, loopVars, fnVars, cb>>

(***************************************************************************)
(* main_loop: the sources are registered and relaunch_server is set before *)
(* g_main_loop_run.  quit says g_main_loop_quit was called; the iteration  *)
(* in which it was called still dispatches the other sources that are      *)
(* ready, each once (dispatched holds those already served since).         *)
(***************************************************************************)
\* main_loop without its assignment to relaunch_server
main_loop_relaunch_Unset == relaunch_server

\* the value main_loop leaves in relaunch_server before g_main_loop_run
main_loop_relaunch == TRUE

MainLoopEnter ==
    /\ pc = "main_loop"
    /\ watches' = (IF server_timeout # 0 THEN {"connection"} ELSE {})
                  \cup (IF use_video THEN {"gst_bus"} ELSE {})
                  \cup {"sigterm", "sigint"}
    /\ relaunch_server' = main_loop_relaunch
    /\ quit' = FALSE
    /\ dispatched' = {}
    /\ pc' = "loop"
    /\ UNCHANGED <<cfgVars, exit_status, hdlVars, connVars, use_video, objVars,
                   hist, fnVars, cb>>

CanDispatch(src) ==
    /\ pc = "loop"
    /\ src \in watches
    /\ quit => src \notin dispatched

\* bookkeeping of one dispatch; quits says the callback called
\* g_main_loop_quit
Dispatch(src, quits) ==
    /\ quit' = (quit \/ quits)
    /\ dispatched' = IF quit THEN dispatched \cup {src}
                     ELSE IF quits THEN {src} ELSE {}
    /\ UNCHANGED watches

\* connection_callback: the new counter and whether the loop is told to quit
connection_callback(stopped, cnt, timeout) ==
    IF ~stopped THEN [counter |-> 0, quits |-> FALSE]
    ELSE [counter |-> cnt + 1, quits |-> cnt + 1 = timeout]

Tick ==
    /\ CanDispatch("connection")
    /\ hist.ticks < MaxTicks
    /\ LET res == connection_callback(connections_stopped, counter, server_timeout)
           idle == hist.idleTicks + 1
       IN  /\ counter' = res.counter
           /\ Dispatch("connection", res.quits)
           /\ hist' = [hist EXCEPT
                         !.ticks = @ + 1,
                         !.idleTicks = idle,
                         !.idleQuit = @ \/ res.quits,
                         !.idleQuitTicks = IF res.quits THEN idle ELSE @,
                         !.busyCount = @ \/ (connections_stopped
                                                /\ open_connections > 0)]
    /\ UNCHANGED <<cfgVars, procVars, hdlVars, relaunch_server, open_connections,
                   connections_stopped, use_video, objVars, fnVars, cb>>

\* sigint_callback without its assignment to relaunch_server
sigint_relaunch_Unset == relaunch_server

\* the value sigint_callback and sigterm_callback leave in relaunch_server
sigint_relaunch == FALSE
sigterm_relaunch == FALSE

SigInt ==
    /\ CanDispatch("sigint")
    /\ relaunch_server' = sigint_relaunch
    /\ Dispatch("sigint", TRUE)
    /\ hist' = [hist EXCEPT !.sig = TRUE]
    /\ UNCHANGED <<cfgVars, procVars, hdlVars, connVars, use_video, objVars,
                   fnVars, cb>>

SigTerm ==
    /\ CanDispatch("sigterm")
    /\ relaunch_server' = sigterm_relaunch
    /\ Dispatch("sigterm", TRUE)
    /\ hist' = [hist EXCEPT !.sig = TRUE]
    /\ UNCHANGED <<cfgVars, procVars, hdlVars, connVars, use_video, objVars,
                   fnVars, cb>>

\* the watch video_renderer_listen put on the renderer's bus: on an error or
\* the end of the stream the renderer quits the loop
GstBusEvent ==
    /\ CanDispatch("gst_bus")
    /\ Dispatch("gst_bus", TRUE)
    /\ hist' = [hist EXCEPT !.rendQuit = TRUE]
    /\ UNCHANGED <<cfgVars, procVars, hdlVars, relaunch_server, connVars,
                   use_video, objVars, fnVars, cb>>

\* g_main_loop_run returns; the sources are removed and the loop released
\* main_loop after g_main_loop_run without the removal of the timeout source
SourcesRemoved_NoTick(ids) == ids \cap {"gst_bus", "sigint", "sigterm"}

\* the sources main_loop removes after g_main_loop_run: each of the four
\* whose id is above 0, that is, each that was registered
SourcesRemoved(ids) == ids \cap {"gst_bus", "sigint", "sigterm", "connection"}

MainLoopReturn ==
    /\ pc = "loop"
    /\ quit
    /\ watches' = watches \ SourcesRemoved(watches)
    /\ dispatched' = {}
    /\ pc' = "decide"
    /\ UNCHANGED <<cfgVars, exit_status, hdlVars, relaunch_server, connVars,
                   use_video, quit, objVars, hist, fnVars, cb>>

(***************************************************************************)
(* main after main_loop: stop_server, then goto relaunch or the end of     *)
(* main (status 0)                                                         *)
(***************************************************************************)
\* main: if (relaunch_server) ... goto relaunch
MainRelaunches(flag) == flag

Relaunch ==
    /\ pc = "decide"
    /\ MainRelaunches(relaunch_server)
    /\ cb = "idle"
    /\ \E closes \in CloseChoices, crash \in CrashChoices(Handles) :
          /\ stop_server(Handles, closes, connections_stopped)
          /\ IF crash
             THEN pc' = "crashed" /\ exit_status' \in {134, 139}
             ELSE pc' = "relaunch" /\ UNCHANGED exit_status
    /\ UNCHANGED <<cfgVars, hdlVars, relaunch_server, counter, use_video,
                   loopVars, run, created, hist, fnVars, cb>>

Stopping ==
    /\ pc = "decide"
    /\ ~MainRelaunches(relaunch_server)
    /\ cb = "idle"
    /\ \E closes \in CloseChoices, crash \in CrashChoices(Handles) :
          /\ stop_server(Handles, closes, connections_stopped)
          /\ IF crash
             THEN pc' = "crashed" /\ exit_status' \in {134, 139}
             ELSE pc' = "exited" /\ exit_status' = 0
    /\ UNCHANGED <<cfgVars, hdlVars, relaunch_server, counter, use_video,
                   loopVars, run, created, hist, fnVars, cb>>

(***************************************************************************)
(* The callbacks the protocol engine makes from its own threads while it   *)
(* runs (from raop_start to raop_destroy).  The connection callbacks are   *)
(* taken to come one at a time (cb names the one in progress);             *)
(* raop_destroy waits for the one in progress, so stop_server runs with    *)
(* cb = "idle".                                                            *)
(***************************************************************************)
EngineRuns == "raop" \in started

\* conn_init as one step
ConnInit ==
    /\ EngineRuns
    /\ cb = "idle"
    /\ engineConns < MaxConn
    /\ open_connections' = open_connections + 1
    /\ connections_stopped' = FALSE
    /\ engineConns' = engineConns + 1
    /\ hist' = [hist EXCEPT !.opened = TRUE, !.idleTicks = 0]
    /\ UNCHANGED <<cfgVars, procVars, hdlVars, relaunch_server, counter,
                   use_video, loopVars, run, created, destroyed, faults, stopOps,
                   started, fnVars, cb>>

\* conn_destroy as one step
ConnDestroy ==
    /\ EngineRuns
    /\ cb = "idle"
    /\ engineConns > 0
    /\ open_connections' = open_connections - 1
    /\ connections_stopped' = IF open_connections - 1 = 0 THEN TRUE
                              ELSE connections_stopped
    /\ engineConns' = engineConns - 1
    /\ hist' = [hist EXCEPT !.idleTicks = 0]
    /\ UNCHANGED <<cfgVars, procVars, hdlVars, relaunch_server, counter,
                   use_video, loopVars, run, created, destroyed, faults, stopOps,
                   started, fnVars, cb>>

\* video_process: the frame is handed to video_renderer_render_buffer
VideoProcess ==
    /\ EngineRuns
    /\ engineConns > 0
    /\ hist' = [hist EXCEPT !.videoForwarded = TRUE]
    /\ UNCHANGED <<cfgVars, procVars, hdlVars, relaunch_server, connVars,
                   use_video, loopVars, objVars, fnVars, cb>>

(***************************************************************************)
(* conn_init and conn_destroy statement by statement: they run on the      *)
(* engine's thread while connection_callback runs on the thread of the     *)
(* main loop, with no lock around the statics they share.                  *)
(***************************************************************************)
\* conn_init: open_connections++
ConnInitCount ==
    /\ EngineRuns
    /\ cb = "idle"
    /\ engineConns < MaxConn
    /\ open_connections' = open_connections + 1
    /\ engineConns' = engineConns + 1
    /\ cb' = "conn_init"
    /\ hist' = [hist EXCEPT !.opened = TRUE, !.idleTicks = 0]
    /\ UNCHANGED <<cfgVars, procVars, hdlVars, relaunch_server,
                   connections_stopped, counter, use_video, loopVars, run,
                   created, destroyed, faults, stopOps, started, fnVars>>

\* conn_init: connections_stopped = false
ConnInitFlag ==
    /\ cb = "conn_init"
    /\ connections_stopped' = FALSE
    /\ cb' = "idle"
    /\ UNCHANGED <<cfgVars, procVars, hdlVars, relaunch_server, open_connections,
                   counter, use_video, loopVars, objVars, hist, fnVars>>

\* conn_destroy: open_connections--
ConnDestroyCount ==
    /\ EngineRuns
    /\ cb = "idle"
    /\ engineConns > 0
    /\ open_connections' = open_connections - 1
    /\ engineConns' = engineConns - 1
    /\ cb' = "conn_destroy"
    /\ hist' = [hist EXCEPT !.idleTicks = 0]
    /\ UNCHANGED <<cfgVars, procVars, hdlVars, relaunch_server,
                   connections_stopped, counter, use_video, loopVars, run,
                   created, destroyed, faults, stopOps, started, fnVars>>

\* conn_destroy: if (!open_connections) connections_stopped = true
ConnDestroyFlag ==
    /\ cb = "conn_destroy"
    /\ connections_stopped' = IF open_connections = 0 THEN TRUE
                              ELSE connections_stopped
    /\ cb' = "idle"
    /\ UNCHANGED <<cfgVars, procVars, hdlVars, relaunch_server, open_connections,
                   counter, use_video, loopVars, objVars, hist, fnVars>>

(***************************************************************************)
(* The process from the label relaunch on, for the configurations the      *)
(* argument loop leaves for these command lines                            *)
(***************************************************************************)
TimeoutArgs(t) == IF t = 0 THEN <<>> ELSE <<F_t, Dec(t)>>
VideoArgs(off) == IF off THEN <<F_vs, S_0>> ELSE <<>>
AudioArgs(a)   == IF a = "flag" THEN <<F_a>>
                  ELSE IF a = "sink" THEN <<F_as, S_0>> ELSE <<>>

Init ==
    /\ \E t \in 0..MaxTimeout, voff \in BOOLEAN, a \in {"on", "flag", "sink"} :
          /\ argv = TimeoutArgs(t) \o VideoArgs(voff) \o AudioArgs(a)
          /\ server_timeout = t
          /\ videosink = (IF voff THEN S_0 ELSE S_autovideosink)
          /\ audiosink = (IF a = "sink" THEN S_0 ELSE S_autoaudiosink)
          /\ use_audio = (a # "flag")
    /\ i = Len(argv) + 1
    /\ display = <<0, 0, 0, 0, 0>>
    /\ tcp = <<0, 0, 0>>
    /\ udp = <<0, 0, 0>>
    /\ videoflip = <<"NONE", "NONE">>
    /\ server_name = S_UxPlay
    /\ use_random_hw_addr = FALSE
    /\ debug_log = FALSE
    /\ pc = "relaunch"
    /\ raop = 0
    /\ dnssd = 0
    /\ video_renderer = 0
    /\ audio_renderer = 0
    /\ render_logger = 0
    /\ relaunch_server = FALSE
    /\ open_connections = 0
    /\ connections_stopped = FALSE
    /\ counter = 0
    /\ use_video = TRUE
    /\ EnvInit
    /\ FnIdle

Next ==
    \/ \E fail \in FailPoints : StartServer(fail)
    \/ MainLoopEnter
    \/ Tick
    \/ SigInt
    \/ SigTerm
    \/ GstBusEvent
    \/ MainLoopReturn
    \/ Relaunch
    \/ Stopping
    \/ ConnInit
    \/ ConnDestroy
    \/ VideoProcess

Spec == Init /\ [][Next]_vars

\* the same process with the connection callbacks interleaved statement by
\* statement with the main thread
NextConc ==
    \/ \E fail \in FailPoints : StartServer(fail)
    \/ MainLoopEnter
    \/ Tick
    \/ SigInt
    \/ SigTerm
    \/ GstBusEvent
    \/ MainLoopReturn
    \/ Relaunch
    \/ Stopping
    \/ ConnInitCount
    \/ ConnInitFlag
    \/ ConnDestroyCount
    \/ ConnDestroyFlag
    \/ VideoProcess

SpecConc == Init /\ [][NextConc]_vars

(***************************************************************************)
(* get_ports applied on its own to a port list.  fnIn holds the fields of  *)
(* the list; the argument is the fields joined by commas.                  *)
(***************************************************************************)
PortFields ==
    {Dec(n) : n \in {1023, 1024, 7000, 65533, 65534, 65535, 65536}}
    \cup {<<>>, <<"+">> \o Dec(7000), <<"-">> \o Dec(7000), <<"7", "a">>,
          <<"0">> \o Dec(7000)}

PortListInputs == UNION {[1..k -> PortFields] : k \in 1..MaxFields}

InitPorts ==
    /\ fnIn \in PortListInputs
    /\ fnOut = <<>>
    /\ pc = "call_get_ports"
    /\ argv = <<>>
    /\ MainLocalsInit
    /\ StaticsInit
    /\ EnvInit

ApplyGetPorts ==
    /\ pc = "call_get_ports"
    /\ fnOut' = get_ports(NPORTS, Join(fnIn, ","), <<0, 0, 0>>)
    /\ pc' = "ret_get_ports"
    /\ UNCHANGED <<cfgVars, exit_status, hdlVars, relaunch_server, connVars,
                   use_video, loopVars, objVars, hist, fnIn, cb>>

SpecPorts == InitPorts /\ [][ApplyGetPorts]_vars

(***************************************************************************)
(* get_display_settings applied on its own.  fnIn holds the segments       *)
(* <<w, h>> or <<w, h, r>> of the argument w x h [@ r], or one segment     *)
(* <<s>> for an argument without an x.                                     *)
(***************************************************************************)
DisplaySegments ==
    {Dec(n) : n \in {0, 1, 255, 256, 1000, 9999, 10000}}
    \cup {<<>>, <<"+", "1">>, <<"-", "1">>, <<" ", "1">>, <<" ", "-", "5">>,
          <<"a">>, <<"1", "a">>, <<"0", "0", "1", "2">>}

DisplayInputs == UNION {[1..k -> DisplaySegments] : k \in 1..3}

DisplayString(parts) ==
    IF Len(parts) = 1 THEN parts[1]
    ELSE IF Len(parts) = 2 THEN parts[1] \o <<"x">> \o parts[2]
    ELSE parts[1] \o <<"x">> \o parts[2] \o <<"@">> \o parts[3]

InitDisplay ==
    /\ fnIn \in DisplayInputs
    /\ fnOut = <<>>
    /\ pc = "call_get_display_settings"
    /\ argv = <<>>
    /\ MainLocalsInit
    /\ StaticsInit
    /\ EnvInit

ApplyGetDisplaySettings ==
    /\ pc = "call_get_display_settings"
    /\ fnOut' = get_display_settings(DisplayString(fnIn), 0, 0, 0)
    /\ pc' = "ret_get_display_settings"
    /\ UNCHANGED <<cfgVars, exit_status, hdlVars, relaunch_server, connVars,
                   use_video, loopVars, objVars, hist, fnIn, cb>>

SpecDisplay == InitDisplay /\ [][ApplyGetDisplaySettings]_vars

(***************************************************************************)
(* get_value applied on its own.  fnIn holds the string and the value *n   *)
(* has on entry (255 for -fps, 0 for -t).                                  *)
(***************************************************************************)
\* a numeral of more than five digits, from its leading digits and its last
\* five
Long(lead, last5) == Dec(lead) \o Tail(Dec(100000 + last5))

ValueStrings ==
    {Dec(n) : n \in 0..12}
    \cup {Dec(n) : n \in {254, 255, 256, 65535, 65536, 2147483647}}
    \cup {Long(42949, 67296), Long(42949, 67297), Long(85899, 34592),
          Long(99999, 99999), Long(0, 5), Long(100000, 0)}
    \cup {<<>>, <<"+", "5">>, <<"-", "5">>, <<"5", "a">>, <<" ", "5">>,
          <<"0", "0">>}

ValueCeilings == {0, 2, FPS_CEILING}

InitValue ==
    /\ fnIn \in [str : ValueStrings, n : ValueCeilings]
    /\ fnOut = <<>>
    /\ pc = "call_get_value"
    /\ argv = <<>>
    /\ MainLocalsInit
    /\ StaticsInit
    /\ EnvInit

ApplyGetValue ==
    /\ pc = "call_get_value"
    /\ fnOut' = get_value(fnIn.str, fnIn.n)
    /\ pc' = "ret_get_value"
    /\ UNCHANGED <<cfgVars, exit_status, hdlVars, relaunch_server, connVars,
                   use_video, loopVars, objVars, hist, fnIn, cb>>

SpecValue == InitValue /\ [][ApplyGetValue]_vars

(***************************************************************************)
(* The hardware address: find_mac or random_mac gives its text and         *)
(* parse_hw_addr its bytes (a byte is kept as its value in 0..255).        *)
(***************************************************************************)
MULTICAST == 0
\* LOCAL of the source (a reserved word here)
LOCAL_BIT == 1
OCTETS == 6

HexDigits == <<"0", "1", "2", "3", "4", "5", "6", "7",
               "8", "9", "a", "b", "c", "d", "e", "f">>
HexUpper  == <<"0", "1", "2", "3", "4", "5", "6", "7",
               "8", "9", "A", "B", "C", "D", "E", "F">>

IsHex(c) == \E d \in 1..16 : HexDigits[d] = c \/ HexUpper[d] = c

HexVal(c) == (CHOOSE d \in 1..16 : HexDigits[d] = c \/ HexUpper[d] = c) - 1

\* printf("%x") of an int below 256
RECURSIVE Hex(_)
Hex(n) == IF n < 16 THEN <<HexDigits[n + 1]>>
          ELSE Hex(n \div 16) \o <<HexDigits[(n % 16) + 1]>>

\* snprintf(str, 3, "%x", octet): no zero padding
Hex2_NoPad(octet) == Hex(octet % 256)

\* snprintf(str, 3, "%02x", octet): at least two digits, cut after two
Hex2(octet) ==
    LET h == Hex(octet)
    IN  SubSeq(IF Len(h) < 2 THEN <<"0">> \o h ELSE h, 1, 2)

\* random_mac; r holds the values of the calls of rand(), in order
random_mac(r) ==
    LET o1 == ((r[1] % 64) * 2 + LOCAL_BIT) * 2 + MULTICAST
    IN  Join(<<Hex2(o1)>> \o [k \in 1..(OCTETS - 1) |-> Hex2(r[k + 1] % 256)],
             ":")

\* find_mac: the first word of the address file of the interface, which
\* the kernel writes as six two-digit groups; <<>> when there is no file
find_mac(dev) ==
    IF dev = <<>> THEN <<>>
    ELSE Join([k \in 1..Len(dev) |-> Hex2(dev[k])], ":")

RECURSIVE AccumHex(_, _, _)
AccumHex(s, k, v) ==
    IF k <= Len(s) /\ IsHex(s[k]) THEN AccumHex(s, k + 1, v * 16 + HexVal(s[k]))
    ELSE [val |-> v, end |-> k]

\* stol(s, NULL, 16): blanks, a sign, an optional 0x, then the hex digits;
\* ok is FALSE when there is no digit (std::invalid_argument is thrown)
stol16(s) ==
    LET k0   == SkipSpace(s, 1)
        sign == k0 <= Len(s) /\ s[k0] \in {"+", "-"}
        k1   == IF sign THEN k0 + 1 ELSE k0
        pfx  == /\ k1 + 2 <= Len(s)
                /\ s[k1] = "0"
                /\ s[k1 + 1] \in {"x", "X"}
                /\ IsHex(s[k1 + 2])
        k2   == IF pfx THEN k1 + 2 ELSE k1
        acc  == AccumHex(s, k2, 0)
    IN  [ok |-> acc.end > k2, neg |-> sign /\ s[k0] = "-", val |-> acc.val]

\* (char) l, as the value of the byte
ToByte(l) == IF l.neg THEN (256 - (l.val % 256)) % 256 ELSE l.val % 256

\* parse_hw_addr: the loop from the 0-based index pos on
RECURSIVE parse_hw_addr_loop(_, _, _)
parse_hw_addr_loop(str, pos, hw_addr) ==
    IF pos >= Len(str) THEN [ok |-> TRUE, hw_addr |-> hw_addr]
    ELSE LET l == stol16(SubstrFrom(str, pos + 1))
         IN  IF ~l.ok THEN [ok |-> FALSE, hw_addr |-> hw_addr]
             ELSE parse_hw_addr_loop(str, pos + 3, Append(hw_addr, ToByte(l)))

parse_hw_addr(str) == parse_hw_addr_loop(str, 0, <<>>)

\* values of rand() and octets of an interface
RandFirst == 0..70
RandRest  == {9, 171, 496}
RandInputs ==
    {<<a>> \o t : a \in RandFirst, t \in [1..(OCTETS - 1) -> RandRest]}
DeviceOctets ==
    {<<0, 26, 43, 255, 128, 127>>, <<1, 2, 3, 4, 5, 6>>,
     <<255, 255, 255, 255, 255, 255>>, <<172, 222, 72, 0, 17, 34>>}

InitMac ==
    /\ fnIn \in [src : {"random"}, r : RandInputs]
                \cup [src : {"device"}, dev : DeviceOctets]
    /\ fnOut = <<>>
    /\ pc = "call_find_mac"
    /\ argv = <<>>
    /\ MainLocalsInit
    /\ StaticsInit
    /\ EnvInit

\* main: mac_address = find_mac()
FindMac ==
    /\ pc = "call_find_mac"
    /\ fnIn.src = "device"
    /\ fnOut' = [mac |-> find_mac(fnIn.dev)]
    /\ pc' = "call_parse_hw_addr"
    /\ UNCHANGED <<cfgVars, exit_status, hdlVars, relaunch_server, connVars,
                   use_video, loopVars, objVars, hist, fnIn, cb>>

\* main: no address was found or -m was given: mac_address = random_mac()
RandomMac ==
    /\ pc = "call_find_mac"
    /\ fnIn.src = "random"
    /\ fnOut' = [mac |-> random_mac(fnIn.r)]
    /\ pc' = "call_parse_hw_addr"
    /\ UNCHANGED <<cfgVars, exit_status, hdlVars, relaunch_server, connVars,
                   use_video, loopVars, objVars, hist, fnIn, cb>>

\* main: parse_hw_addr(mac_address, server_hw_addr)
ParseHwAddr ==
    /\ pc = "call_parse_hw_addr"
    /\ LET res == parse_hw_addr(fnOut.mac)
       IN  fnOut' = [mac |-> fnOut.mac, ok |-> res.ok, hw_addr |-> res.hw_addr]
    /\ pc' = "ret_parse_hw_addr"
    /\ UNCHANGED <<cfgVars, exit_status, hdlVars, relaunch_server, connVars,
                   use_video, loopVars, objVars, hist, fnIn, cb>>

NextMac ==
    \/ FindMac
    \/ RandomMac
    \/ ParseHwAddr

SpecMac == InitMac /\ [][NextMac]_vars

(***************************************************************************)
(* start_server: the port registered for airplay, from tcp[2] and the port *)
(* raop_start bound (both unsigned short)                                  *)
(***************************************************************************)
\* the port as port + 1 whatever the bound port
airplay_port_AlwaysUp(tcp2, port) ==
    IF tcp2 # 0 THEN tcp2 ELSE (port + 1) % 65536

airplay_port(tcp2, port) ==
    IF tcp2 # 0 THEN tcp2
    ELSE (IF port # HIGHEST_PORT THEN port + 1 ELSE port - 1) % 65536

ExplicitPorts == {0, 7002}

InitAirplayPort ==
    /\ fnIn \in [tcp2 : ExplicitPorts, port : 1..HIGHEST_PORT]
    /\ fnOut = <<>>
    /\ pc = "call_register"
    /\ argv = <<>>
    /\ MainLocalsInit
    /\ StaticsInit
    /\ EnvInit

\* start_server from dnssd_register_raop to dnssd_register_airplay
RegisterAirplay ==
    /\ pc = "call_register"
    /\ fnOut' = [raop |-> fnIn.port, airplay |-> airplay_port(fnIn.tcp2, fnIn.port)]
    /\ pc' = "ret_register"
    /\ UNCHANGED <<cfgVars, exit_status, hdlVars, relaunch_server, connVars,
                   use_video, loopVars, objVars, hist, fnIn, cb>>

SpecAirplayPort == InitAirplayPort /\ [][RegisterAirplay]_vars

(***************************************************************************)
(* Reading a decimal numeral, for stating what the parsers should return   *)
(***************************************************************************)
IsNumeral(f) == Len(f) > 0 /\ \A k \in 1..Len(f) : IsDigit(f[k])

RECURSIVE NumeralValue(_)
NumeralValue(f) ==
    IF Len(f) = 0 THEN 0
    ELSE 10 * NumeralValue(SubSeq(f, 1, Len(f) - 1)) + DigitVal(f[Len(f)])

\* a field that is a numeral of at most maxlen digits with a value in lo..hi
NumeralIn(f, maxlen, lo, hi) ==
    /\ IsNumeral(f)
    /\ Len(f) <= maxlen
    /\ NumeralValue(f) \in lo..hi

(***************************************************************************)
(* Properties of the argument parser                                       *)
(***************************************************************************)
PortProbes == {1024, 7000, 65533}

\* C5: for every port n accepted by "-p n" (one value, no tcp/udp
\* sub-selector), the configuration has tcp = {n, n+1, n+2} and
\* udp = {n, n+1, n+2}.
C5_SinglePortSetsBothFamilies ==
    \A n \in PortProbes :
        (argv = <<F_p, Dec(n)>> /\ pc = "relaunch")
            => /\ tcp = <<n, n + 1, n + 2>>
               /\ udp = <<n, n + 1, n + 2>>

\* C7: argument errors are always fatal: once a value-taking flag (-s, -fps,
\* -f, -r, -p, -t) has been given a value its validator rejects, the
\* process has exited with status 1 and start_server is never reached; an
\* invalid -t value never leaves a run with the idle timeout defaulted.
C7_ArgumentErrorsFatal ==
    hist.badValue => (pc = "exited" /\ exit_status = 1)

C9_DisplayParsing ==
    pc = "ret_get_display_settings" =>
        LET n == Len(fnIn)
            valid == /\ n \in {2, 3}
                     /\ NumeralIn(fnIn[1], 4, 1, 9999)
                     /\ NumeralIn(fnIn[2], 4, 1, 9999)
                     /\ n = 3 => NumeralIn(fnIn[3], 3, 1, 255)
        IN  /\ fnOut.ok <=> valid
            /\ fnOut.ok =>
                   /\ fnOut.w = NumeralValue(fnIn[1])
                   /\ fnOut.h = NumeralValue(fnIn[2])
                   /\ fnOut.r = IF n = 3 THEN NumeralValue(fnIn[3]) ELSE 0

(***************************************************************************)
(* Properties of the lifecycle                                             *)
(***************************************************************************)
\* C1: with an idle timeout T > 0 and a run attempt in which no connection
\* is ever opened, the loop is told to quit by the watchdog at the T-th
\* tick, with relaunch_server = TRUE (no signal having been handled).
C1_IdleWatchdogFires ==
    (/\ pc = "loop"
     /\ server_timeout > 0
     /\ ~hist.opened
     /\ open_connections = 0
     /\ ~hist.sig
     /\ hist.ticks >= server_timeout)
        => (hist.idleQuit /\ quit /\ relaunch_server)

\* C2: the idle timeout fires only after T consecutive ticks counted from
\* the most recent moment a connection was opened or open_connections
\* became 0: every conn_init restarts the count, for every ordering of
\* open, close and tick.
C2_OpenRestartsIdleCount ==
    hist.idleQuit => hist.idleQuitTicks >= server_timeout

\* C3: once SIGINT or SIGTERM has been handled, the loop is told to quit,
\* relaunch_server is FALSE from then on, whatever the idle counter and
\* whether or not the idle timeout was reached in the same run; main then
\* stops the stack and ends with status 0 without calling start_server
\* again.
C3_SignalSuppressesRelaunch ==
    hist.sig =>
        /\ ~relaunch_server
        /\ pc \in {"loop", "decide", "exited"}
        /\ pc = "loop" => quit
        /\ pc = "exited" =>
              /\ exit_status = 0
              /\ started = {}
              /\ \E k \in 1..Len(stopOps) : stopOps[k].op = "raop_destroy"

\* a signal handled in a run whose idle timeout had fired, the idle counter
\* standing at the timeout, and the process ended
C3_Witness ==
    /\ hist.sig
    /\ hist.idleQuit
    /\ counter = server_timeout
    /\ pc = "exited"

\* C4: stop_server is idempotent: no call of it invokes a destroy or an
\* unregister on a subsystem that an earlier stop_server already
\* destroyed.
C4_StopIsIdempotent ==
    \A k \in 1..Len(stopOps) : ~stopOps[k].stale

\* C6: when start_server fails, on the first attempt or on a relaunch,
\* every subsystem created during that attempt has been destroyed exactly
\* once and no object destroyed by an earlier stop_server is destroyed
\* again.
C6_RollbackOnStartFailure ==
    (hist.startFailed \/ pc = "crashed") =>
        /\ \A o \in created : o[2] = run => o \in destroyed
        /\ faults = {}

\* C10: a failed start_server is never followed by a relaunch: the loop is
\* not entered, start_server is not called again and the process ends with
\* a status other than 0.
C10_FailedStartEndsProcess ==
    hist.startFailed =>
        /\ pc = "exited"
        /\ exit_status # 0
        /\ watches = {}

\* start_server failed on a relaunch, after a first run that was started
\* and stopped
C10_Witness ==
    /\ hist.startFailed
    /\ run = 2
    /\ pc = "exited"
    /\ exit_status = 1

\* C11: the configuration is reused verbatim across relaunches: no step of
\* the process after the argument loop, start_server included, changes a
\* field of the configuration (the display settings with the frame rate
\* included, also when the video sink is "0"), so every call of
\* start_server receives the configuration the argument loop produced.
C11_ConfigReusedVerbatim ==
    [][UNCHANGED <<display, tcp, udp, videoflip, server_name, use_audio,
                   use_random_hw_addr, debug_log, videosink, audiosink,
                   server_timeout>>]_vars

\* C15: when main_loop is entered in a run attempt (the first or a
\* relaunch) in which no connection has been reported yet,
\* open_connections = 0, counter = 0 and connections_stopped = FALSE,
\* whatever they were when the previous run attempt ended.
C15_FreshRuntimeState ==
    (pc = "main_loop" /\ ~hist.opened) =>
        /\ open_connections = 0
        /\ counter = 0
        /\ ~connections_stopped

\* C16: with conn_init and conn_destroy running on the engine's thread
\* while connection_callback runs on the main thread, connections_stopped
\* implies open_connections = 0 in every state, and connection_callback
\* never counts an idle second (nor quits the loop for idleness) at a tick
\* where open_connections > 0.
C16_ConnectionAccounting ==
    /\ connections_stopped => open_connections = 0
    /\ ~hist.busyCount

\* C17 (as stated): relaunch_server is true only through the idle timeout:
\* in a run whose loop was stopped by the renderer's event with no idle
\* timeout fired, relaunch_server is FALSE when the loop returns and main
\* does not go back to the label relaunch.
C17_RendererExitNoRelaunch ==
    (hist.rendQuit /\ ~hist.idleQuit) =>
        /\ pc = "decide" => ~relaunch_server
        /\ pc # "relaunch"

\* C17 (amended): main_loop sets relaunch_server to TRUE before the loop
\* runs and only the signal callbacks clear it: while no signal has been
\* handled relaunch_server is TRUE in the loop and when it returns, so a
\* run stopped by the renderer's event is followed by stop_server and a new
\* start_server; the process then ends only if that start fails.
C17_RendererExitRelaunches ==
    /\ (pc \in {"loop", "decide"} /\ ~hist.sig) => relaunch_server
    /\ (hist.rendQuit /\ ~hist.sig /\ pc = "exited") => hist.startFailed

\* the renderer's event ended the first run, with no idle timeout and no
\* signal, and main is back at the label relaunch
C17_Witness ==
    /\ hist.rendQuit
    /\ ~hist.idleQuit
    /\ ~hist.sig
    /\ run = 1
    /\ pc = "relaunch"

\* C18: with the video sink "0", a run attempt has no video renderer (the
\* handle stays NULL), the renderer is never started and no frame given to
\* video_process is forwarded to a renderer.
C18_NoVideoRendererWhenDisabled ==
    (videosink = S_0 /\ pc \in {"main_loop", "loop", "decide"}) =>
        /\ video_renderer = 0
        /\ "video" \notin started
        /\ ~hist.videoForwarded

\* C19: every stop_server on a started stack destroys the engine first,
\* then unregisters both discovery records, then destroys the registrar,
\* the audio renderer (if there is one), the video renderer and last the
\* logger.
C19_TeardownOrder ==
    (stopOps # <<>> /\ ~hist.startFailed /\ pc \in {"relaunch", "exited"}) =>
        LET ops  == [k \in 1..Len(stopOps) |-> stopOps[k].op]
            head == <<"raop_destroy", "dnssd_unregister_raop",
                      "dnssd_unregister_airplay", "dnssd_destroy">>
            tail == <<"video_renderer_destroy", "logger_destroy">>
        IN  ops = IF audio_renderer # 0
                  THEN head \o <<"audio_renderer_destroy">> \o tail
                  ELSE head \o tail

\* a stack with both renderers, stopped at the end of the process
C19_Witness ==
    /\ pc = "exited"
    /\ ~hist.startFailed
    /\ Len(stopOps) = 7

\* C13: the port values given explicitly in a list that get_ports accepts
\* are pairwise distinct: a list with a repeated value is rejected.
C13_PortsDistinct ==
    (pc = "ret_get_ports" /\ fnOut.ok) =>
        \A j, k \in 1..Len(fnIn) : j # k => fnOut.port[j] # fnOut.port[k]

(***************************************************************************)
(* Properties of get_value, the hardware address and the airplay port      *)
(***************************************************************************)
\* a numeral without its leading zeros
RECURSIVE StripZeros(_)
StripZeros(f) ==
    IF Len(f) > 1 /\ f[1] = "0" THEN StripZeros(Tail(f)) ELSE f

\* a < b for numerals of the same length
RECURSIVE DigitsLess(_, _)
DigitsLess(a, b) ==
    IF Len(a) = 0 THEN FALSE
    ELSE \/ DigitVal(a[1]) < DigitVal(b[1])
         \/ a[1] = b[1] /\ DigitsLess(Tail(a), Tail(b))

\* the value of numeral a is above that of numeral b
NumeralAbove(a, b) ==
    LET x == StripZeros(a)
        y == StripZeros(b)
    IN  Len(x) > Len(y) \/ (Len(x) = Len(y) /\ DigitsLess(y, x))

\* C14: whenever get_value accepts a numeral, the value it stores is the
\* decimal value of the numeral (written back in decimal it is the numeral
\* without leading zeros); a numeral of at most 10 digits above 2^32 - 1 is
\* rejected and so is a numeral of value zero.
C14_NoSilentOverflow ==
    (pc = "ret_get_value" /\ IsNumeral(fnIn.str)) =>
        /\ fnOut.ok => Dec(fnOut.n) = StripZeros(fnIn.str)
        /\ (Len(fnIn.str) <= 10
              /\ NumeralAbove(fnIn.str, Long(42949, 67295))) => ~fnOut.ok
        /\ StripZeros(fnIn.str) = <<"0">> => ~fnOut.ok

\* the value of the k-th two-digit group of an address text
GroupValue(mac, k) == 16 * HexVal(mac[3 * k - 2]) + HexVal(mac[3 * k - 1])

\* C12: the text of an address is six two-digit hex groups separated by
\* colons and parse_hw_addr yields exactly six bytes, the k-th equal to the
\* k-th group; the first byte of a random address lies in 0..255 with
\* bit 0 clear (unicast) and bit 1 set (locally administered).
C12_HwAddrRoundTrip ==
    pc = "ret_parse_hw_addr" =>
        /\ Len(fnOut.mac) = 3 * OCTETS - 1
        /\ \A k \in 1..(3 * OCTETS - 1) :
              IF k % 3 = 0 THEN fnOut.mac[k] = ":" ELSE IsHex(fnOut.mac[k])
        /\ fnOut.ok
        /\ Len(fnOut.hw_addr) = OCTETS
        /\ \A k \in 1..OCTETS : fnOut.hw_addr[k] = GroupValue(fnOut.mac, k)
        /\ fnIn.src = "device" => fnOut.hw_addr = fnIn.dev
        /\ fnIn.src = "random" =>
              /\ fnOut.hw_addr[1] \in 0..255
              /\ fnOut.hw_addr[1] % 2 = 0
              /\ (fnOut.hw_addr[1] \div 2) % 2 = 1
              /\ \A k \in 2..OCTETS : fnOut.hw_addr[k] = fnIn.r[k] % 256

\* a random address whose first byte is below 16 (a group with a leading
\* zero) and whose other bytes are above 127
C12_Witness ==
    /\ pc = "ret_parse_hw_addr"
    /\ fnIn.src = "random"
    /\ fnOut.ok
    /\ fnOut.hw_addr = <<6, 171, 171, 171, 240, 171>>

\* C20: the port registered for airplay is tcp[2] when that is not 0;
\* otherwise it is the bound port + 1 when the bound port is not 65535 and
\* the bound port - 1 when it is; for every bound port in 1..65535 the
\* derived port lies in 1..65535 and differs from the bound port.
C20_CompanionPort ==
    pc = "ret_register" =>
        LET b == fnIn.port
            t == fnIn.tcp2
            a == fnOut.airplay
        IN  /\ fnOut.raop = b
            /\ t # 0 => a = t
            /\ (t = 0 /\ b # 65535) => a = b + 1
            /\ (t = 0 /\ b = 65535) => a = 65534
            /\ t = 0 => (a \in 1..65535 /\ a # b)

\* the highest port was bound and no third tcp port was given
C20_Witness ==
    /\ pc = "ret_register"
    /\ fnIn.tcp2 = 0
    /\ fnIn.port = 65535
    /\ fnOut.airplay = 65534

(***************************************************************************)
(* Properties of the tokens that follow an option                          *)
(***************************************************************************)
\* the options that always take a value
ValueFlags == {F_n, F_s, F_fps, F_f, F_r, F_vs, F_as, F_t}

\* the token after position k exists and does not start with '-'
ValueFollows(k) == k < Len(argv) /\ FirstChar(argv[k + 1]) # "-"

\* C21: every option that takes a value, the port list after "-p tcp" and
\* "-p udp" included, is handled only when a next token exists that does
\* not start with '-'; otherwise the process has exited with status 1 at
\* that option, and the parser never reads past the last token (which ends
\* the process abnormally).
C21_ValueTokenChecked ==
    /\ pc # "crashed"
    /\ pc \in {"parse", "relaunch"} =>
          \A k \in 1..(i - 1) :
              /\ argv[k] \in ValueFlags => ValueFollows(k)
              /\ (argv[k] = F_p /\ ValueFollows(k)
                    /\ argv[k + 1] \in {S_tcp, S_udp}) => ValueFollows(k + 1)
    /\ (pc = "exited" /\ i <= Len(argv) /\ argv[i] \in ValueFlags
          /\ ~ValueFollows(i)) => exit_status = 1

====
